---------------------------- MODULE Spec2Model ----------------------------
(***************************************************************************)
(* Model of the leaky k-th ranked element protocol (encryptogroup/dp-KRE). *)
(*                                                                         *)
(* Parties hold sorted private databases; in every round each party counts *)
(* its elements below / above the midpoint m of the search range, encrypts *)
(* the two counts, the server adds the ciphertexts, the parties partially  *)
(* decrypt the sums, the server combines the shares and computes an        *)
(* UpdateSearchRange verdict which every party applies.                    *)
(*                                                                         *)
(* Two drivers are modelled: the in-process loop of src/src/protocol.rs    *)
(* and the networked server / clients of src/src/net.                      *)
(*                                                                         *)
(* The threshold Paillier cryptosystem (crate pht_crypto) is not part of   *)
(* the repository: a ciphertext is modelled as a record that hides a       *)
(* plaintext, a partial decryption as a record naming the key share that   *)
(* made it.                                                                *)
(***************************************************************************)
EXTENDS Integers, Sequences, FiniteSets, TLC

(***************************************************************************)
(* Bounds of the model.                                                    *)
(***************************************************************************)
\* largest number of parties
MaxParties == 2
\* largest number of elements of all databases together
MaxTotal == 3
\* database elements are drawn from -1 .. MaxVal
MaxVal == 1
\* a drawn Laplace noise, rounded, lies in -MaxNoise .. MaxNoise
MaxNoise == 1
\* rounds after which the model stops following a run
MaxRounds == 3
\* the same, for the specification that follows differentially private runs
\* beyond the round cap the protocol description asks for
DeepRounds == 5

\* how far the initial search range may reach beyond [min, max]
MaxExt == 2
\* further calls of the driver on the same server and parties
MaxAgain == 1

\* Option<T>: None, or Some(x) holding x
None == <<>>

Some(x) == <<x>>

\* the value held by Some(x)
unwrap(o) == o[1]

\* no verdict computed yet in this round
NoUpdate == "NoUpdate"

Values == (-1) .. MaxVal

\* a wider set of element values, for runs of more rounds
WideValues == (-1) .. (MaxVal + 1)

NoiseLevel == {"NONE", "LOW", "MEDIUM", "HIGH"}

UpdateSearchRange == {"FoundK", "SearchBelow", "SearchAbove", "Abort"}

VARIABLES
    \* ---- configuration, fixed at construction
    n,                  \* number of parties
    k,                  \* rank to retrieve (PartyClient.k, PartyServer.k)
    databases_size,     \* PartyServer.databases_size, PartyClient.databases_size
    database,           \* database[i]: the sorted database of party i
    kind,               \* "plain" (PartyClient) or "dp" (DPClient)
    noise_level,        \* DPClient.noise_level
    get_scale_fn,       \* DPClient.get_scale_fn: "fixed" or "sigmoid"
    driver,             \* "inproc" (protocol.rs) or "net" (net/*.rs)
    encoded_len,        \* encoded_len[t]: bytes of the bincode encoding of a
                        \* message of type t, fixed by the key material
    \* ---- party state
    search_range,       \* search_range[i] = <<a, b>>
    search_range_idx,   \* search_range_idx[i] = <<start, end>>, the Range<usize>
    greater_than_m_idx, \* Option<usize>
    m,                  \* middle point
    noise_array,        \* number of entries pushed to DPClient.noise_array
    \* ---- in-process driver (leaky_kth_ranked_element)
    pc,                 \* position in the loop body
    idx,                \* position of the current for loop over the parties
    local_lt, local_gt, \* Vec<Ciphertext>
    sum_enc,            \* [sum_lt_enc, sum_gt_enc] or None
    lt_shares, gt_shares, \* Vec<PartialDecryption>
    update,             \* the verdict of the current round, or NoUpdate
    res,                \* Option<T>
    rounds,             \* verdicts computed so far, by either driver
    history,            \* what the calls of leaky_kth_ranked_element that have
                        \* returned left behind, one record per call
    \* ---- networked driver: NetworkServer::run_protocol
    srv_pc,             \* position in the loop body of the server
    task,               \* task[i]: the task spawned to read from client i
    chan,               \* the mpsc channel from the reading tasks to the loop
    recvd,              \* items the loop has taken from the channel
    lt_array_cipher, gt_array_cipher,   \* Vec<Ciphertext>, one slot per client
    lt_array_decrypt, gt_array_decrypt, \* Vec<PartialDecryption>
    pending,            \* clients the current broadcast has not written to yet
    \* ---- networked driver: NetworkClient::run_protocol, one per party
    cl_pc,              \* cl_pc[i]: position in the loop body of client i
    cl_ret,             \* cl_ret[i]: what run_protocol of client i returned
    cl_round,           \* cl_round[i]: verdicts client i has received
    to_srv,             \* to_srv[i]: messages written by client i, unread
    to_cl               \* to_cl[i]: messages written to client i, unread

cfgVars == <<n, k, databases_size, database, kind, noise_level, get_scale_fn, driver,
             encoded_len>>
partyVars == <<search_range, search_range_idx, greater_than_m_idx, m, noise_array>>
drvVars == <<pc, idx, local_lt, local_gt, sum_enc, lt_shares, gt_shares, update, res, rounds>>
srvVars == <<srv_pc, task, chan, recvd, lt_array_cipher, gt_array_cipher,
             lt_array_decrypt, gt_array_decrypt, pending>>
clVars == <<cl_pc, cl_ret, cl_round, to_srv, to_cl>>
netVars == <<srvVars, clVars>>
vars == <<cfgVars, partyVars, drvVars, history, netVars>>

Party == 1 .. n

(***************************************************************************)
(* Helpers.                                                                *)
(***************************************************************************)
Max(x, y) == IF x >= y THEN x ELSE y

Min(x, y) == IF x <= y THEN x ELSE y

SetMin(S) == CHOOSE x \in S : \A y \in S : x <= y

SetMax(S) == CHOOSE x \in S : \A y \in S : x >= y

\* num::integer::Average::average_floor: floor of the mean, towards -infinity
average_floor(a, b) == (a + b) \div 2

\* f64::round of x / y for x >= 0, y > 0: half away from zero
RoundDiv(x, y) == (2 * x + y) \div (2 * y)

RECURSIVE Insert(_, _)
Insert(x, s) ==
    IF s = <<>> THEN <<x>>
    ELSE IF x <= Head(s) THEN <<x>> \o s
    ELSE <<Head(s)>> \o Insert(x, Tail(s))

\* Vec::sort
RECURSIVE Sort(_)
Sort(s) == IF s = <<>> THEN <<>> ELSE Insert(Head(s), Sort(Tail(s)))

RECURSIVE SumLen(_, _)
SumLen(dbs, i) == IF i = 0 THEN 0 ELSE Len(dbs[i]) + SumLen(dbs, i - 1)

RECURSIVE Flatten(_, _)
Flatten(dbs, i) == IF i = 0 THEN <<>> ELSE Flatten(dbs, i - 1) \o dbs[i]

Elements(dbs, cnt) == UNION {{dbs[i][j] : j \in 1 .. Len(dbs[i])} : i \in 1 .. cnt}

\* utils::protocol::get_kth_element: db[k - 1] of the sorted union
get_kth_element(dbs, cnt, kk) == Sort(Flatten(dbs, cnt))[kk]

(***************************************************************************)
(* Crypto capability (pht_crypto, external).                               *)
(***************************************************************************)
encrypt(x) == [pt |-> x]

\* Ciphertext::from(1), the neutral element of add_encrypted
CtOne == [pt |-> 0]

add_encrypted(acc, c) == [pt |-> acc.pt + c.pt]

share_decrypt(i, c) == [share |-> i, ct |-> c]

\* share_combine(..).unwrap(): the plaintext when every key share contributed
\* to one and the same ciphertext, None (a panic of unwrap) otherwise
share_combine(shares, cnt) ==
    IF /\ Len(shares) = cnt
       /\ {shares[j].share : j \in 1 .. Len(shares)} = 1 .. cnt
       /\ \A j \in 1 .. Len(shares) : shares[j].ct = shares[1].ct
    THEN Some(shares[1].ct.pt)
    ELSE None


(***************************************************************************)
(* PartyClient (src/src/party/party_client.rs).                            *)
(***************************************************************************)
\* the min/max optimisation applies: self.k == 1 || self.k == self.databases_size
UsesSubRange == k = 1 \/ k = databases_size

\* local_comp1, line 129: the recomputed middle point
NewM(i) == average_floor(search_range[i][1], search_range[i][2])

\* local_comp1, line 131: the Range<usize> the database is sliced with
range_idx(i) ==
    IF UsesSubRange THEN search_range_idx[i] ELSE <<0, Len(database[i])>>

\* the slice expression self.database[range_idx] does not panic
SliceInBounds(i) ==
    /\ range_idx(i)[1] <= range_idx(i)[2]
    /\ range_idx(i)[2] <= Len(database[i])

\* 0-based indices of the scanned elements
Scanned(i) == range_idx(i)[1] .. (range_idx(i)[2] - 1)

\* local_comp1 counting Ordering::Equal as less
LessCount_with_equal(i) ==
    Cardinality({r \in Scanned(i) : database[i][r + 1] <= NewM(i)})

\* local_comp1: elements of the slice that compare Ordering::Less with m
LessCount(i) ==
    Cardinality({r \in Scanned(i) : database[i][r + 1] < NewM(i)})

\* local_comp1: elements of the slice that compare Ordering::Greater with m
GreaterCount(i) ==
    Cardinality({r \in Scanned(i) : database[i][r + 1] > NewM(i)})

\* local_comp1 not adding search_range_idx.start to the enumerate() index
FirstGreaterIdx_no_offset(i) ==
    LET gs == {r \in Scanned(i) : database[i][r + 1] > NewM(i)}
    IN  IF gs = {} THEN None ELSE Some(SetMin(gs) - range_idx(i)[1])

\* local_comp1, lines 137-153: get_or_insert(idx) keeps the first enumerate()
\* index of a greater element; line 153 adds search_range_idx.start to it
FirstGreaterIdx(i) ==
    LET gs == {r \in Scanned(i) : database[i][r + 1] > NewM(i)}
    IN  IF gs = {} THEN None
        ELSE Some((SetMin(gs) - range_idx(i)[1]) + search_range_idx[i][1])

\* update_search_range with SearchAbove keeping m in the range
UpdatedRange_keeps_m(i, u) ==
    IF u = "SearchBelow" THEN <<search_range[i][1], m[i] - 1>>
    ELSE IF u = "SearchAbove" THEN <<m[i], search_range[i][2]>>
    ELSE search_range[i]

\* update_search_range assigning search_range inside the `if let Some(idx)`
UpdatedRange_inside_if_let(i, u) ==
    IF greater_than_m_idx[i] = None THEN search_range[i]
    ELSE IF u = "SearchBelow" THEN <<search_range[i][1], m[i] - 1>>
    ELSE IF u = "SearchAbove" THEN <<m[i] + 1, search_range[i][2]>>
    ELSE search_range[i]

\* update_search_range moving the search range past m when the verdict is
\* FoundK, as it does for SearchAbove
UpdatedRange_found_as_above(i, u) ==
    IF u = "SearchBelow" THEN <<search_range[i][1], m[i] - 1>>
    ELSE IF u \in {"SearchAbove", "FoundK"} THEN <<m[i] + 1, search_range[i][2]>>
    ELSE search_range[i]

\* update_search_range: the new search_range
UpdatedRange(i, u) ==
    IF u = "SearchBelow" THEN <<search_range[i][1], m[i] - 1>>
    ELSE IF u = "SearchAbove" THEN <<m[i] + 1, search_range[i][2]>>
    ELSE search_range[i]

\* update_search_range with the two assignments to search_range_idx exchanged
UpdatedRangeIdx_ends_exchanged(i, u) ==
    IF u = "SearchBelow" /\ greater_than_m_idx[i] # None
        THEN <<unwrap(greater_than_m_idx[i]), search_range_idx[i][2]>>
    ELSE IF u = "SearchAbove" /\ greater_than_m_idx[i] # None
        THEN <<search_range_idx[i][1], unwrap(greater_than_m_idx[i])>>
    ELSE search_range_idx[i]

\* update_search_range: the new search_range_idx
UpdatedRangeIdx(i, u) ==
    IF u = "SearchBelow" /\ greater_than_m_idx[i] # None
        THEN <<search_range_idx[i][1], unwrap(greater_than_m_idx[i])>>
    ELSE IF u = "SearchAbove" /\ greater_than_m_idx[i] # None
        THEN <<unwrap(greater_than_m_idx[i]), search_range_idx[i][2]>>
    ELSE search_range_idx[i]

\* update_search_range answering Abort with Some(-1), as the network client does
UpdateResult_minus_one_on_abort(i, u) ==
    IF u = "FoundK" THEN Some(m[i])
    ELSE IF u = "Abort" THEN Some(-1)
    ELSE None

\* update_search_range answering FoundK with None, as it answers a search verdict
UpdateResult_none_on_found(i, u) == None

\* update_search_range: the returned Option<T>
UpdateResult(i, u) == IF u = "FoundK" THEN Some(m[i]) ELSE None

(***************************************************************************)
(* PartyServer (src/src/party/party_server.rs).                            *)
(***************************************************************************)
\* the fold started from an encryption of 1 instead of Ciphertext::from(1)
RECURSIVE FoldAdd_from_encrypted_one(_, _)
FoldAdd_from_encrypted_one(cts, j) ==
    IF j = 0 THEN encrypt(1)
    ELSE add_encrypted(FoldAdd_from_encrypted_one(cts, j - 1), cts[j])

RECURSIVE FoldAdd(_, _)
FoldAdd(cts, j) ==
    IF j = 0 THEN CtOne ELSE add_encrypted(FoldAdd(cts, j - 1), cts[j])

\* add_ciphertexts: fold(Ciphertext::from(1), add_encrypted) on both lists
add_ciphertexts(lts, gts) == <<FoldAdd(lts, Len(lts)), FoldAdd(gts, Len(gts))>>

\* combine_shares
combine_shares(lts, gts) == <<share_combine(lts, n), share_combine(gts, n)>>

\* calculate_update with the two search branches tested in the other order
calculate_update_above_first(lt, gt) ==
    IF lt > databases_size \/ gt > databases_size THEN "Abort"
    ELSE IF gt > databases_size - k THEN "SearchAbove"
    ELSE IF lt >= k THEN "SearchBelow"
    ELSE "FoundK"

\* calculate_update with gt >= databases_size - k for gt > databases_size - k
calculate_update_above_on_equal(lt, gt) ==
    IF lt > databases_size \/ gt > databases_size THEN "Abort"
    ELSE IF lt >= k THEN "SearchBelow"
    ELSE IF gt >= databases_size - k THEN "SearchAbove"
    ELSE "FoundK"

\* calculate_update with lt > k for lt >= k
calculate_update_strict(lt, gt) ==
    IF lt > databases_size \/ gt > databases_size THEN "Abort"
    ELSE IF lt > k THEN "SearchBelow"
    ELSE IF gt > databases_size - k THEN "SearchAbove"
    ELSE "FoundK"

\* calculate_update; databases_size - k is a usize subtraction, k <= databases_size
\* in every configuration of the model
calculate_update(lt, gt) ==
    IF lt > databases_size \/ gt > databases_size THEN "Abort"
    ELSE IF lt >= k THEN "SearchBelow"
    ELSE IF gt > databases_size - k THEN "SearchAbove"
    ELSE "FoundK"

(***************************************************************************)
(* DPClient (src/src/party/dp_client.rs).                                  *)
(***************************************************************************)
\* get_scale_fixed with a scale of 0.2 for NONE too
get_scale_fixed_nonzero(level) ==
    CASE level = "NONE" -> 2
      [] level = "LOW" -> 2
      [] level = "MEDIUM" -> 5
      [] level = "HIGH" -> 20

\* get_scale_fixed, in tenths
get_scale_fixed(level) ==
    CASE level = "NONE" -> 0
      [] level = "LOW" -> 2
      [] level = "MEDIUM" -> 5
      [] level = "HIGH" -> 20

\* get_scale_sigmoid, by its sign: 0 when the scale is 0.0, 1 when it is positive.
\* scale = 1 / (1 + e) * scale_sigmoid with 1 / (1 + e) > 0, scale_sigmoid = 0.0
\* for NONE and a positive multiple of log_100(db_size) otherwise
get_scale_sigmoid(level, result, db_size) ==
    IF level = "NONE" THEN 0
    ELSE IF db_size <= 1 THEN 0
    ELSE 1

get_scale(level, result, db_size) ==
    IF get_scale_fn = "fixed" THEN get_scale_fixed(level)
    ELSE get_scale_sigmoid(level, result, db_size)

\* laplace_point followed by noise.round() as isize: 0 for scale 0 (0.0 or NaN
\* both cast to 0), any integer otherwise
laplace_point(scale) == IF scale = 0 THEN {0} ELSE (0 - MaxNoise) .. MaxNoise

\* add_noise taking the length of the database whatever k is
db_size_whole_database(i) == Len(database[i])

\* add_noise, lines 127-130
db_size(i) ==
    IF UsesSubRange
        THEN Max(search_range_idx[i][2] - search_range_idx[i][1], 1)
        ELSE Len(database[i])

\* add_noise: the possible return values
add_noise(i, result) ==
    {Max(result + noise, 0) :
        noise \in laplace_point(get_scale(noise_level, result, db_size(i)))}

\* local_computation without the proportional adjustment
adjust_skipped(less, greater, len) == <<less, greater>>

\* local_computation, lines 87-95: the proportional adjustment. The f64
\* expression (less / sum * diff).round() equals the exactly rounded quotient
\* for every sum below 22
adjust(less, greater, len) ==
    LET sum_after_noise == less + greater
        diff == sum_after_noise - len
        less_adjustment == RoundDiv(less * diff, sum_after_noise)
        greater_adjustment == RoundDiv(greater * diff, sum_after_noise)
    IN  IF sum_after_noise > len
        THEN <<Max(less - less_adjustment, 0), Max(greater - greater_adjustment, 0)>>
        ELSE <<less, greater>>

\* DPClient::local_computation: the pairs it may hand to local_comp2
dp_counts(i) ==
    {adjust(l, g, Len(database[i])) :
        l \in add_noise(i, LessCount(i)), g \in add_noise(i, GreaterCount(i))}

\* the pairs <<less, greater>> party i may hand to local_comp2
local_counts(i) ==
    IF kind = "dp" THEN dp_counts(i) ELSE {<<LessCount(i), GreaterCount(i)>>}


(***************************************************************************)
(* Construction (src/src/utils/protocol.rs, PartyClient::new, DPClient::new)*)
(***************************************************************************)
\* the ways to hand total elements to cnt parties, each getting at least one:
\* the sets of the cnt - 1 positions after which the next database starts
Cuts(total, cnt) == {c \in SUBSET (1 .. (total - 1)) : Cardinality(c) = cnt - 1}

\* the i-th database when the elements all are cut after the positions in c
RECURSIVE NthCut(_, _)
NthCut(c, i) == IF i = 0 THEN 0 ELSE SetMin({x \in c : x > NthCut(c, i - 1)})

RawDatabase(all, c, i) ==
    SubSeq(all, NthCut(c, i - 1) + 1,
           IF i = Cardinality(c) + 1 THEN Len(all) ELSE NthCut(c, i))

\* create_server_clients / create_server_dp_clients followed by the driver
\* named: every party gets the same k, databases_size and search range
\* [min, max] of the union; PartyClient::new sorts the database it is given.
\* first_k: the least k handed in; neither create_server_clients nor
\* PartyClient::new nor PartyServer looks at k, so 0 is taken like any other
\* sizes: the values databases_size may be given, 0 standing for the sum of the
\* database lengths (what create_server_clients computes), d > 0 for a
\* PartyServer / PartyClient built with a databases_size that is d too small
\* vals: the values of the database elements
\* exts: how far below the least element and how far above the greatest one
\* the search_range handed to PartyClient::new may reach; create_server_clients
\* hands in [min, max], which is 0 on both sides
ConstructOver(vals, exts, kinds, levels, drivers, sizes, first_k) ==
    /\ n \in 1 .. MaxParties
    /\ \E total \in n .. MaxTotal :
       \E all \in [1 .. total -> vals] :
       \E c \in Cuts(total, n) :
       \E below \in exts, above \in exts :
       LET raw == [i \in 1 .. n |-> RawDatabase(all, c, i)]
           min == SetMin(Elements(raw, n)) - below
           max == SetMax(Elements(raw, n)) + above
       IN  /\ database = [i \in 1 .. n |-> Sort(raw[i])]
           /\ databases_size \in {SumLen(raw, n) - d : d \in sizes} \cap (1 .. MaxTotal)
           /\ search_range = [i \in 1 .. n |-> <<min, max>>]
           /\ m = [i \in 1 .. n |-> average_floor(min, max)]
           /\ search_range_idx = [i \in 1 .. n |-> <<0, Len(raw[i])>>]
    /\ k \in first_k .. databases_size
    /\ kind \in kinds
    /\ noise_level \in (IF kind = "dp" THEN levels ELSE {"NONE"})
    /\ get_scale_fn \in (IF kind = "dp" THEN {"fixed", "sigmoid"} ELSE {"fixed"})
    /\ driver \in drivers
    /\ greater_than_m_idx = [i \in 1 .. n |-> None]
    /\ noise_array = [i \in 1 .. n |-> 0]

\* the parties and server of create_server_clients / create_server_dp_clients
\* on databases over Values
ConstructFrom(kinds, levels, drivers, sizes, first_k) ==
    ConstructOver(Values, {0}, kinds, levels, drivers, sizes, first_k)

\* the parties and server made with a k in 1 .. databases_size
Construct(kinds, levels, drivers, sizes) ==
    ConstructFrom(kinds, levels, drivers, sizes, 1)

\* the locals of leaky_kth_ranked_element at its first loop iteration
DriverStart ==
    /\ pc = "local"
    /\ idx = 1
    /\ local_lt = <<>>
    /\ local_gt = <<>>
    /\ sum_enc = None
    /\ lt_shares = <<>>
    /\ gt_shares = <<>>
    /\ update = NoUpdate
    /\ res = None
    /\ rounds = 0
    /\ history = <<>>

\* Ciphertext::from(0), the value the server's vectors are filled with before
\* the clients' ciphertexts overwrite it
CtZero == [pt |-> 0]

\* vec![0u8; 128]: the buffer a reading task of the server hands to read
ServerBufLen == 128

\* vec![0u8; 1024]: the buffer receive_data_from_server hands to read
ClientBufLen == 1024

\* bincode of ServerMessage::MsgUpdateSearchRange(update): the u32 index of
\* the variant followed by the u32 index of the UpdateSearchRange variant
UpdateLen == 8

\* the messages that carry two Ciphertext or two PartialDecryption values
CipherMsgTypes == {"MsgCiphertext", "MsgPartialDecryption", "MsgDecryptRequest"}

\* encoded lengths followed: one that a single read of either peer holds, one
\* a byte longer than the server's buffer, one a byte longer than the client's
EncodedLens == {ServerBufLen, ServerBufLen + 1, ClientBufLen + 1}

\* reader.read(&mut buf) followed by buf.truncate(n) on a message of type t
\* that has arrived whole: the number of bytes left in buf
BytesRead(t, buflen) == Min(encoded_len[t], buflen)

\* bincode::deserialize / parse_client_message on what was read: Ok when all
\* bytes of the message are there, Err (and the unwrap panics) when the end
\* of the message is missing
Deserializes(t, buflen) == BytesRead(t, buflen) = encoded_len[t]

\* NetworkServer and NetworkClient after init_connections: nothing sent yet,
\* the server about to spawn its reading tasks, every client about to compute
\* lens: the encoded lengths the messages of CipherMsgTypes may have
NetStartOver(lens) ==
    /\ encoded_len \in [CipherMsgTypes \cup {"MsgUpdateSearchRange"} -> lens \cup {UpdateLen}]
    /\ encoded_len["MsgUpdateSearchRange"] = UpdateLen
    /\ \A t \in CipherMsgTypes : encoded_len[t] \in lens
    /\ srv_pc = "readCiphertexts"
    /\ task = [i \in 1 .. n |-> "reading"]
    /\ chan = <<>>
    /\ recvd = 0
    /\ lt_array_cipher = [i \in 1 .. n |-> CtZero]
    /\ gt_array_cipher = [i \in 1 .. n |-> CtZero]
    /\ lt_array_decrypt = <<>>
    /\ gt_array_decrypt = <<>>
    /\ pending = {}
    /\ cl_pc = [i \in 1 .. n |-> "local"]
    /\ cl_ret = [i \in 1 .. n |-> None]
    /\ cl_round = [i \in 1 .. n |-> 0]
    /\ to_srv = [i \in 1 .. n |-> <<>>]
    /\ to_cl = [i \in 1 .. n |-> <<>>]

\* the start with keys under which every message is encoded in no more bytes
\* than one read of its receiver holds
NetStart == NetStartOver({ServerBufLen})

\* MEDIUM and HIGH differ from LOW by the magnitude of the scale alone, which
\* laplace_point does not tell apart here: the runs followed are those of NONE
\* and LOW
Init == Construct({"plain", "dp"}, {"NONE", "LOW"}, {"inproc"}, {0}) /\ DriverStart /\ NetStart

(***************************************************************************)
(* In-process driver: leaky_kth_ranked_element (src/src/protocol.rs).      *)
(***************************************************************************)
\* LocalComputation leaving the for loop after the first party
LocalComputation_first_only(cap) ==
    /\ driver = "inproc"
    /\ UNCHANGED netVars
    /\ pc = "local"
    /\ idx > 1 \/ rounds < cap
    /\ IF SliceInBounds(idx)
       THEN \E c \in local_counts(idx) :
            /\ m' = [m EXCEPT ![idx] = NewM(idx)]
            /\ greater_than_m_idx' =
                 [greater_than_m_idx EXCEPT ![idx] = FirstGreaterIdx(idx)]
            /\ noise_array' = [noise_array EXCEPT
                 ![idx] = IF kind = "dp" THEN @ + 2 ELSE @]
            /\ local_lt' = Append(local_lt, encrypt(c[1]))
            /\ local_gt' = Append(local_gt, encrypt(c[2]))
            /\ pc' = "add" /\ idx' = 1
       ELSE /\ pc' = "panic"
            /\ UNCHANGED <<m, greater_than_m_idx, noise_array, local_lt, local_gt, idx>>
    /\ UNCHANGED <<cfgVars, history, search_range, search_range_idx>>
    /\ UNCHANGED <<sum_enc, lt_shares, gt_shares, update, res, rounds>>

\* lines 30-34: party idx runs local_computation; its two ciphertexts are pushed
LocalComputation(cap) ==
    /\ driver = "inproc"
    /\ UNCHANGED netVars
    /\ pc = "local"
    /\ idx > 1 \/ rounds < cap
    /\ IF SliceInBounds(idx)
       THEN \E c \in local_counts(idx) :
            /\ m' = [m EXCEPT ![idx] = NewM(idx)]
            /\ greater_than_m_idx' =
                 [greater_than_m_idx EXCEPT ![idx] = FirstGreaterIdx(idx)]
            /\ noise_array' = [noise_array EXCEPT
                 ![idx] = IF kind = "dp" THEN @ + 2 ELSE @]
            /\ local_lt' = Append(local_lt, encrypt(c[1]))
            /\ local_gt' = Append(local_gt, encrypt(c[2]))
            /\ IF idx = n
               THEN pc' = "add" /\ idx' = 1
               ELSE pc' = pc /\ idx' = idx + 1
       ELSE /\ pc' = "panic"
            /\ UNCHANGED <<m, greater_than_m_idx, noise_array, local_lt, local_gt, idx>>
    /\ UNCHANGED <<cfgVars, history, search_range, search_range_idx>>
    /\ UNCHANGED <<sum_enc, lt_shares, gt_shares, update, res, rounds>>

\* line 37; local_lt and local_gt are not read again in this iteration and
\* the model drops them here
AddCiphertexts ==
    /\ driver = "inproc"
    /\ UNCHANGED netVars
    /\ pc = "add"
    /\ sum_enc' = add_ciphertexts(local_lt, local_gt)
    /\ local_lt' = <<>>
    /\ local_gt' = <<>>
    /\ pc' = "shares"
    /\ UNCHANGED <<cfgVars, history, partyVars>>
    /\ UNCHANGED <<idx, lt_shares, gt_shares, update, res, rounds>>

\* lines 43-47: party idx runs compute_shares on the two sums
ComputeShares ==
    /\ driver = "inproc"
    /\ UNCHANGED netVars
    /\ pc = "shares"
    /\ lt_shares' = Append(lt_shares, share_decrypt(idx, sum_enc[1]))
    /\ gt_shares' = Append(gt_shares, share_decrypt(idx, sum_enc[2]))
    /\ IF idx = n
       THEN pc' = "combine" /\ idx' = 1
       ELSE pc' = pc /\ idx' = idx + 1
    /\ UNCHANGED <<cfgVars, history, partyVars>>
    /\ UNCHANGED <<local_lt, local_gt, sum_enc, update, res, rounds>>

\* lines 50-51: combine_shares, then calculate_update
CalculateUpdate ==
    /\ driver = "inproc"
    /\ UNCHANGED netVars
    /\ pc = "combine"
    /\ LET sums == combine_shares(lt_shares, gt_shares)
       IN  IF sums[1] = None \/ sums[2] = None
           THEN pc' = "panic" /\ UNCHANGED <<update, rounds>>
           ELSE /\ update' = calculate_update(unwrap(sums[1]), unwrap(sums[2]))
                /\ rounds' = rounds + 1
                /\ pc' = "update"
    /\ UNCHANGED <<cfgVars, history, partyVars>>
    /\ UNCHANGED <<idx, local_lt, local_gt, sum_enc, lt_shares, gt_shares, res>>

\* lines 52-61: party idx applies the verdict; the for loop and then the outer
\* loop are left as soon as a party returns Some, otherwise the next round
\* starts with fresh vectors
UpdateSearchRangeStep ==
    /\ driver = "inproc"
    /\ UNCHANGED netVars
    /\ pc = "update"
    /\ search_range' = [search_range EXCEPT ![idx] = UpdatedRange(idx, update)]
    /\ search_range_idx' =
         [search_range_idx EXCEPT ![idx] = UpdatedRangeIdx(idx, update)]
    /\ res' = UpdateResult(idx, update)
    /\ IF res' # None
       THEN /\ pc' = "done"
            /\ UNCHANGED <<idx, local_lt, local_gt, sum_enc, lt_shares, gt_shares, update>>
       ELSE IF idx = n
       THEN /\ pc' = "local"
            /\ idx' = 1
            /\ local_lt' = <<>>
            /\ local_gt' = <<>>
            /\ sum_enc' = None
            /\ lt_shares' = <<>>
            /\ gt_shares' = <<>>
            /\ update' = NoUpdate
       ELSE /\ pc' = pc
            /\ idx' = idx + 1
            /\ UNCHANGED <<local_lt, local_gt, sum_enc, lt_shares, gt_shares, update>>
    /\ UNCHANGED <<cfgVars, history, m, greater_than_m_idx, noise_array, rounds>>

Next ==
    \/ LocalComputation(MaxRounds)
    \/ AddCiphertexts
    \/ ComputeShares
    \/ CalculateUpdate
    \/ UpdateSearchRangeStep

\* the in-process driver on the parties and server of create_server_clients or
\* create_server_dp_clients
Spec == Init /\ [][Next]_vars

\* the in-process driver on plain parties; the loop is sequential code, every
\* step it can take is eventually taken
InitPlain == Construct({"plain"}, {"NONE"}, {"inproc"}, {0}) /\ DriverStart /\ NetStart

SpecPlainFair == InitPlain /\ [][Next]_vars /\ WF_vars(Next)

\* the in-process driver on a server and plain parties whose databases_size is
\* the sum of the database lengths or understates it
InitAnySize ==
    Construct({"plain"}, {"NONE"}, {"inproc"}, 0 .. MaxTotal) /\ DriverStart /\ NetStart

SpecAnySize == InitAnySize /\ [][Next]_vars

\* the same with plain parties or DPClient parties of noise level NONE
InitAnySizeBoth ==
    Construct({"plain", "dp"}, {"NONE"}, {"inproc"}, 0 .. MaxTotal)
        /\ DriverStart /\ NetStart

SpecAnySizeBoth == InitAnySizeBoth /\ [][Next]_vars

\* the in-process driver on differentially private parties of every noise
\* level, followed for DeepRounds rounds
InitDP == Construct({"dp"}, NoiseLevel, {"inproc"}, {0}) /\ DriverStart /\ NetStart

NextDeep ==
    \/ LocalComputation(DeepRounds)
    \/ AddCiphertexts
    \/ ComputeShares
    \/ CalculateUpdate
    \/ UpdateSearchRangeStep

SpecDeep == InitDP /\ [][NextDeep]_vars

\* the in-process driver on plain parties made by create_server_clients with
\* a k in 0 .. databases_size
InitAnyK == ConstructFrom({"plain"}, {"NONE"}, {"inproc"}, {0}, 0) /\ DriverStart /\ NetStart

SpecAnyK == InitAnyK /\ [][Next]_vars

\* the in-process driver on plain parties made by create_server_clients on
\* databases over WideValues
InitWide ==
    ConstructOver(WideValues, {0}, {"plain"}, {"NONE"}, {"inproc"}, {0}, 1)
        /\ DriverStart /\ NetStart

SpecWide == InitWide /\ [][Next]_vars

\* the in-process driver on plain parties made by PartyClient::new with a
\* search_range that contains [min, max]
InitAnyRange ==
    ConstructOver(WideValues, 0 .. MaxExt, {"plain"}, {"NONE"}, {"inproc"}, {0}, 1)
        /\ DriverStart /\ NetStart

SpecAnyRange == InitAnyRange /\ [][Next]_vars


(***************************************************************************)
(* Networked driver (src/src/net/netserver.rs, src/src/net/netclient.rs).  *)
(* A socket is a queue of messages in each direction; a read takes the     *)
(* oldest message whole.                                                   *)
(***************************************************************************)
\* ClientMessage
MsgCiphertext(a, b) == [type |-> "MsgCiphertext", a |-> a, b |-> b]

MsgPartialDecryption(a, b) == [type |-> "MsgPartialDecryption", a |-> a, b |-> b]

\* ServerMessage
MsgDecryptRequest(a, b) == [type |-> "MsgDecryptRequest", a |-> a, b |-> b]

MsgUpdateSearchRange(u) == [type |-> "MsgUpdateSearchRange", update |-> u]

\* netclient.rs 48-51: local_computation, then MsgCiphertext is written
ClientLocalComputation(i, cap) ==
    /\ driver = "net"
    /\ cl_pc[i] = "local"
    /\ cl_round[i] < cap
    /\ IF SliceInBounds(i)
       THEN \E c \in local_counts(i) :
            /\ m' = [m EXCEPT ![i] = NewM(i)]
            /\ greater_than_m_idx' =
                 [greater_than_m_idx EXCEPT ![i] = FirstGreaterIdx(i)]
            /\ noise_array' = [noise_array EXCEPT
                 ![i] = IF kind = "dp" THEN @ + 2 ELSE @]
            /\ to_srv' = [to_srv EXCEPT
                 ![i] = Append(@, MsgCiphertext(encrypt(c[1]), encrypt(c[2])))]
            /\ cl_pc' = [cl_pc EXCEPT ![i] = "awaitDecrypt"]
       ELSE /\ cl_pc' = [cl_pc EXCEPT ![i] = "panic"]
            /\ UNCHANGED <<m, greater_than_m_idx, noise_array, to_srv>>
    /\ UNCHANGED <<cfgVars, history, search_range, search_range_idx, drvVars, srvVars>>
    /\ UNCHANGED <<cl_ret, cl_round, to_cl>>

\* netclient.rs 54-66: one read of receive_data_from_server; what it returns
\* must deserialize to MsgDecryptRequest, else the client panics; the two
\* shares are computed and written
ClientComputeShares(i) ==
    /\ driver = "net"
    /\ cl_pc[i] = "awaitDecrypt"
    /\ to_cl[i] # <<>>
    /\ to_cl' = [to_cl EXCEPT ![i] = Tail(@)]
    /\ LET msg == Head(to_cl[i])
       IN  IF Deserializes(msg.type, ClientBufLen) /\ msg.type = "MsgDecryptRequest"
           THEN /\ to_srv' = [to_srv EXCEPT ![i] = Append(@,
                      MsgPartialDecryption(share_decrypt(i, msg.a),
                                           share_decrypt(i, msg.b)))]
                /\ cl_pc' = [cl_pc EXCEPT ![i] = "awaitUpdate"]
           ELSE /\ cl_pc' = [cl_pc EXCEPT ![i] = "panic"]
                /\ UNCHANGED to_srv
    /\ UNCHANGED <<cfgVars, history, partyVars, drvVars, srvVars, cl_ret, cl_round>>

\* netclient.rs 68-89: one read of receive_data_from_server; what it returns
\* must deserialize to MsgUpdateSearchRange, else the client panics; Abort
\* returns T::from(-1), any other verdict is handed to update_search_range and
\* its Some(x) is returned
ClientUpdate(i) ==
    /\ driver = "net"
    /\ cl_pc[i] = "awaitUpdate"
    /\ to_cl[i] # <<>>
    /\ to_cl' = [to_cl EXCEPT ![i] = Tail(@)]
    /\ LET msg == Head(to_cl[i])
       IN  IF ~Deserializes(msg.type, ClientBufLen) \/ msg.type # "MsgUpdateSearchRange"
           THEN /\ cl_pc' = [cl_pc EXCEPT ![i] = "panic"]
                /\ UNCHANGED <<search_range, search_range_idx, cl_ret, cl_round>>
           ELSE IF msg.update = "Abort"
           THEN /\ cl_pc' = [cl_pc EXCEPT ![i] = "returned"]
                /\ cl_ret' = [cl_ret EXCEPT ![i] = Some(-1)]
                /\ cl_round' = [cl_round EXCEPT ![i] = @ + 1]
                /\ UNCHANGED <<search_range, search_range_idx>>
           ELSE /\ search_range' =
                     [search_range EXCEPT ![i] = UpdatedRange(i, msg.update)]
                /\ search_range_idx' =
                     [search_range_idx EXCEPT ![i] = UpdatedRangeIdx(i, msg.update)]
                /\ cl_ret' = [cl_ret EXCEPT ![i] = UpdateResult(i, msg.update)]
                /\ cl_round' = [cl_round EXCEPT ![i] = @ + 1]
                /\ cl_pc' = [cl_pc EXCEPT
                     ![i] = IF cl_ret'[i] # None THEN "returned" ELSE "local"]
    /\ UNCHANGED <<cfgVars, history, m, greater_than_m_idx, noise_array, drvVars, srvVars, to_srv>>

\* netserver.rs 80-99: the task spawned for client i does one read into its
\* buffer; what it holds must parse to MsgCiphertext, else the task panics;
\* the ciphertexts are sent with the client's id into the channel
ServerReadCiphertext(i) ==
    /\ driver = "net"
    /\ srv_pc = "readCiphertexts"
    /\ task[i] = "reading"
    /\ to_srv[i] # <<>>
    /\ to_srv' = [to_srv EXCEPT ![i] = Tail(@)]
    /\ LET msg == Head(to_srv[i])
       IN  IF Deserializes(msg.type, ServerBufLen) /\ msg.type = "MsgCiphertext"
           THEN /\ chan' = Append(chan, <<i, msg.a, msg.b>>)
                /\ task' = [task EXCEPT ![i] = "sent"]
           ELSE /\ task' = [task EXCEPT ![i] = "panic"]
                /\ UNCHANGED chan
    /\ UNCHANGED <<cfgVars, history, partyVars, drvVars>>
    /\ UNCHANGED <<srv_pc, recvd, lt_array_cipher, gt_array_cipher,
                   lt_array_decrypt, gt_array_decrypt, pending>>
    /\ UNCHANGED <<cl_pc, cl_ret, cl_round, to_cl>>

\* ServerStoreCiphertext storing every item in the first slots, the id unused
ServerStoreCiphertext_first_slot ==
    /\ driver = "net"
    /\ srv_pc = "readCiphertexts"
    /\ recvd < n
    /\ chan # <<>>
    /\ chan' = Tail(chan)
    /\ recvd' = recvd + 1
    /\ lt_array_cipher' = [lt_array_cipher EXCEPT ![1] = Head(chan)[2]]
    /\ gt_array_cipher' = [gt_array_cipher EXCEPT ![1] = Head(chan)[3]]
    /\ UNCHANGED <<cfgVars, history, partyVars, drvVars, clVars>>
    /\ UNCHANGED <<srv_pc, task, lt_array_decrypt, gt_array_decrypt, pending>>

\* netserver.rs 103-108: the loop takes one item from the channel and stores
\* the two ciphertexts in the slots of the client that sent them
ServerStoreCiphertext ==
    /\ driver = "net"
    /\ srv_pc = "readCiphertexts"
    /\ recvd < n
    /\ chan # <<>>
    /\ chan' = Tail(chan)
    /\ recvd' = recvd + 1
    /\ lt_array_cipher' = [lt_array_cipher EXCEPT ![Head(chan)[1]] = Head(chan)[2]]
    /\ gt_array_cipher' = [gt_array_cipher EXCEPT ![Head(chan)[1]] = Head(chan)[3]]
    /\ UNCHANGED <<cfgVars, history, partyVars, drvVars, clVars>>
    /\ UNCHANGED <<srv_pc, task, lt_array_decrypt, gt_array_decrypt, pending>>

\* ServerAddCiphertexts leaving the receive loop after the first item and not
\* joining the tasks
ServerAddCiphertexts_first_item ==
    /\ driver = "net"
    /\ srv_pc = "readCiphertexts"
    /\ recvd >= 1
    /\ sum_enc' = add_ciphertexts(lt_array_cipher, gt_array_cipher)
    /\ srv_pc' = "sendDecryptRequest"
    /\ pending' = Party
    /\ UNCHANGED <<cfgVars, history, partyVars, clVars>>
    /\ UNCHANGED <<pc, idx, local_lt, local_gt, lt_shares, gt_shares, update, res, rounds>>
    /\ UNCHANGED <<task, chan, recvd, lt_array_cipher, gt_array_cipher,
                   lt_array_decrypt, gt_array_decrypt>>

\* netserver.rs 110-125: after num_clients items and join_all of the tasks the
\* ciphertexts are added and the broadcast of MsgDecryptRequest starts
ServerAddCiphertexts ==
    /\ driver = "net"
    /\ srv_pc = "readCiphertexts"
    /\ recvd = n
    /\ \A i \in Party : task[i] # "reading"
    /\ sum_enc' = add_ciphertexts(lt_array_cipher, gt_array_cipher)
    /\ srv_pc' = "sendDecryptRequest"
    /\ pending' = Party
    /\ UNCHANGED <<cfgVars, history, partyVars, clVars>>
    /\ UNCHANGED <<pc, idx, local_lt, local_gt, lt_shares, gt_shares, update, res, rounds>>
    /\ UNCHANGED <<task, chan, recvd, lt_array_cipher, gt_array_cipher,
                   lt_array_decrypt, gt_array_decrypt>>

\* broadcast_to_all_parties (203-228) of MsgDecryptRequest: one spawned task
\* per client writes the message; when all are joined (129-136) the vectors
\* for the shares are empty and the reading tasks are spawned again
ServerSendDecryptRequest(i) ==
    /\ driver = "net"
    /\ srv_pc = "sendDecryptRequest"
    /\ i \in pending
    /\ to_cl' = [to_cl EXCEPT ![i] = Append(@, MsgDecryptRequest(sum_enc[1], sum_enc[2]))]
    /\ pending' = pending \ {i}
    /\ IF pending' = {}
       THEN /\ srv_pc' = "readShares"
            /\ task' = [j \in Party |-> "reading"]
            /\ chan' = <<>>
            /\ recvd' = 0
            /\ lt_array_decrypt' = <<>>
            /\ gt_array_decrypt' = <<>>
       ELSE UNCHANGED <<srv_pc, task, chan, recvd, lt_array_decrypt, gt_array_decrypt>>
    /\ UNCHANGED <<cfgVars, history, partyVars, drvVars>>
    /\ UNCHANGED <<lt_array_cipher, gt_array_cipher>>
    /\ UNCHANGED <<cl_pc, cl_ret, cl_round, to_srv>>

\* netserver.rs 140-159: the task spawned for client i does one read into its
\* buffer; what it holds must parse to MsgPartialDecryption, else the task
\* panics; the shares are sent into the channel
ServerReadShares(i) ==
    /\ driver = "net"
    /\ srv_pc = "readShares"
    /\ task[i] = "reading"
    /\ to_srv[i] # <<>>
    /\ to_srv' = [to_srv EXCEPT ![i] = Tail(@)]
    /\ LET msg == Head(to_srv[i])
       IN  IF Deserializes(msg.type, ServerBufLen) /\ msg.type = "MsgPartialDecryption"
           THEN /\ chan' = Append(chan, <<i, msg.a, msg.b>>)
                /\ task' = [task EXCEPT ![i] = "sent"]
           ELSE /\ task' = [task EXCEPT ![i] = "panic"]
                /\ UNCHANGED chan
    /\ UNCHANGED <<cfgVars, history, partyVars, drvVars>>
    /\ UNCHANGED <<srv_pc, recvd, lt_array_cipher, gt_array_cipher,
                   lt_array_decrypt, gt_array_decrypt, pending>>
    /\ UNCHANGED <<cl_pc, cl_ret, cl_round, to_cl>>

\* ServerStoreShares pushing a share only in front of an empty vector, so that
\* the shares kept are those of the first arrival
ServerStoreShares_first_kept ==
    /\ driver = "net"
    /\ srv_pc = "readShares"
    /\ recvd < n
    /\ chan # <<>>
    /\ chan' = Tail(chan)
    /\ recvd' = recvd + 1
    /\ lt_array_decrypt' =
         IF lt_array_decrypt = <<>> THEN <<Head(chan)[2]>> ELSE lt_array_decrypt
    /\ gt_array_decrypt' =
         IF gt_array_decrypt = <<>> THEN <<Head(chan)[3]>> ELSE gt_array_decrypt
    /\ UNCHANGED <<cfgVars, history, partyVars, drvVars, clVars>>
    /\ UNCHANGED <<srv_pc, task, lt_array_cipher, gt_array_cipher, pending>>

\* netserver.rs 163-168: the loop takes one item from the channel and pushes
\* the two shares
ServerStoreShares ==
    /\ driver = "net"
    /\ srv_pc = "readShares"
    /\ recvd < n
    /\ chan # <<>>
    /\ chan' = Tail(chan)
    /\ recvd' = recvd + 1
    /\ lt_array_decrypt' = Append(lt_array_decrypt, Head(chan)[2])
    /\ gt_array_decrypt' = Append(gt_array_decrypt, Head(chan)[3])
    /\ UNCHANGED <<cfgVars, history, partyVars, drvVars, clVars>>
    /\ UNCHANGED <<srv_pc, task, lt_array_cipher, gt_array_cipher, pending>>

\* netserver.rs 170-183: after num_clients items and join_all of the tasks the
\* shares are combined, the verdict is computed and its broadcast starts
ServerCalculateUpdate ==
    /\ driver = "net"
    /\ srv_pc = "readShares"
    /\ recvd = n
    /\ \A i \in Party : task[i] # "reading"
    /\ LET sums == combine_shares(lt_array_decrypt, gt_array_decrypt)
       IN  IF sums[1] = None \/ sums[2] = None
           THEN srv_pc' = "panic" /\ UNCHANGED <<update, rounds, pending>>
           ELSE /\ update' = calculate_update(unwrap(sums[1]), unwrap(sums[2]))
                /\ rounds' = rounds + 1
                /\ srv_pc' = "sendUpdate"
                /\ pending' = Party
    /\ UNCHANGED <<cfgVars, history, partyVars, clVars>>
    /\ UNCHANGED <<pc, idx, local_lt, local_gt, sum_enc, lt_shares, gt_shares, res>>
    /\ UNCHANGED <<task, chan, recvd, lt_array_cipher, gt_array_cipher,
                   lt_array_decrypt, gt_array_decrypt>>

\* broadcast_to_all_parties of MsgUpdateSearchRange (185), then the match of
\* 187-199: the loop is left on FoundK and Abort; otherwise the next iteration
\* refills the ciphertext vectors and spawns the reading tasks (68-101)
ServerSendUpdate(i) ==
    /\ driver = "net"
    /\ srv_pc = "sendUpdate"
    /\ i \in pending
    /\ to_cl' = [to_cl EXCEPT ![i] = Append(@, MsgUpdateSearchRange(update))]
    /\ pending' = pending \ {i}
    /\ IF pending' # {}
       THEN UNCHANGED <<srv_pc, task, chan, recvd, lt_array_cipher, gt_array_cipher,
                        sum_enc, update>>
       ELSE IF update \in {"FoundK", "Abort"}
       THEN /\ srv_pc' = "done"
            /\ UNCHANGED <<task, chan, recvd, lt_array_cipher, gt_array_cipher,
                           sum_enc, update>>
       ELSE /\ srv_pc' = "readCiphertexts"
            /\ task' = [j \in Party |-> "reading"]
            /\ chan' = <<>>
            /\ recvd' = 0
            /\ lt_array_cipher' = [j \in Party |-> CtZero]
            /\ gt_array_cipher' = [j \in Party |-> CtZero]
            /\ sum_enc' = None
            /\ update' = NoUpdate
    /\ UNCHANGED <<cfgVars, history, partyVars>>
    /\ UNCHANGED <<pc, idx, local_lt, local_gt, lt_shares, gt_shares, res, rounds>>
    /\ UNCHANGED <<lt_array_decrypt, gt_array_decrypt>>
    /\ UNCHANGED <<cl_pc, cl_ret, cl_round, to_srv>>

NextNet ==
    \/ \E i \in Party : ClientLocalComputation(i, MaxRounds)
    \/ \E i \in Party : ClientComputeShares(i)
    \/ \E i \in Party : ClientUpdate(i)
    \/ \E i \in Party : ServerReadCiphertext(i)
    \/ ServerStoreCiphertext
    \/ ServerAddCiphertexts
    \/ \E i \in Party : ServerSendDecryptRequest(i)
    \/ \E i \in Party : ServerReadShares(i)
    \/ ServerStoreShares
    \/ ServerCalculateUpdate
    \/ \E i \in Party : ServerSendUpdate(i)

\* the networked driver: one NetworkServer and one NetworkClient per plain
\* party, as kre_protocol_net (src/src/net/benchmarks.rs) sets them up
InitNet == Construct({"plain"}, {"NONE"}, {"net"}, {0}) /\ DriverStart /\ NetStart

SpecNet == InitNet /\ [][NextNet]_vars

\* either driver on plain parties
InitEither ==
    Construct({"plain"}, {"NONE"}, {"inproc", "net"}, {0}) /\ DriverStart /\ NetStart

SpecEither == InitEither /\ [][Next \/ NextNet]_vars

\* the networked driver on a server and plain parties whose databases_size is
\* the sum of the database lengths or understates it
InitNetAnySize ==
    Construct({"plain"}, {"NONE"}, {"net"}, 0 .. MaxTotal) /\ DriverStart /\ NetStart

SpecNetAnySize == InitNetAnySize /\ [][NextNet]_vars

\* the networked driver on plain parties with keys of any of the encoded
\* lengths followed
InitNetWire ==
    Construct({"plain"}, {"NONE"}, {"net"}, {0}) /\ DriverStart /\ NetStartOver(EncodedLens)

SpecNetWire == InitNetWire /\ [][NextNet]_vars

\* the steps of the server and of the tasks it spawns
NextServer ==
    \/ \E i \in Party : ServerReadCiphertext(i)
    \/ ServerStoreCiphertext
    \/ ServerAddCiphertexts
    \/ \E i \in Party : ServerSendDecryptRequest(i)
    \/ \E i \in Party : ServerReadShares(i)
    \/ ServerStoreShares
    \/ ServerCalculateUpdate
    \/ \E i \in Party : ServerSendUpdate(i)

\* the networked driver with a server whose runtime keeps running it and its
\* tasks, and clients of which any may fall silent at any point
SpecNetServerFair == InitNet /\ [][NextNet]_vars /\ WF_vars(NextServer)

SpecPlain == InitPlain /\ [][Next]_vars

\* KValue (src/src/utils/protocol.rs)
KValue == {"Min", "Median", "Max"}

\* KValue::to_k; n / 2 is the integer division of usize
to_k(kv, size) ==
    CASE kv = "Min" -> 1
      [] kv = "Median" -> size \div 2
      [] kv = "Max" -> size

\* the in-process driver on a server and plain parties made with the k that
\* to_k gives for the size of the union, as the tests make them
InitKValue ==
    /\ ConstructFrom({"plain"}, {"NONE"}, {"inproc"}, {0}, 0)
    /\ k \in {to_k(kv, databases_size) : kv \in KValue}
    /\ DriverStart /\ NetStart

SpecKValue == InitKValue /\ [][Next]_vars

\* run_multi_party (src/src/dp_test.rs 126-129): leaky_kth_ranked_element has
\* returned and is called again on the same server and parties; the call
\* starts with res = None and fresh vectors (23-26), the parties are as the
\* call before left them
RunAgain ==
    /\ driver = "inproc"
    /\ pc = "done"
    /\ Len(history) < MaxAgain
    /\ history' = Append(history, [res |-> res, rounds |-> rounds,
                                   search_range |-> search_range,
                                   search_range_idx |-> search_range_idx])
    /\ pc' = "local"
    /\ idx' = 1
    /\ local_lt' = <<>>
    /\ local_gt' = <<>>
    /\ sum_enc' = None
    /\ lt_shares' = <<>>
    /\ gt_shares' = <<>>
    /\ update' = NoUpdate
    /\ res' = None
    /\ UNCHANGED <<cfgVars, partyVars, rounds, netVars>>

NextAgain == Next \/ RunAgain

\* the in-process driver called repeatedly on a server and plain parties
SpecAgain == InitPlain /\ [][NextAgain]_vars

(***************************************************************************)
(* Properties.                                                             *)
(***************************************************************************)
\* the k-th smallest element (1-indexed) of the sorted union of the databases
KthOfUnion == get_kth_element(database, n, k)

\* b0 - a0 + 1 for the initial range [a0, b0] = [min, max] of the union
InitialRange ==
    SetMax(Elements(database, n)) - SetMin(Elements(database, n)) + 1

RECURSIVE FloorLog2(_)
FloorLog2(x) == IF x <= 1 THEN 0 ELSE 1 + FloorLog2(x \div 2)

CeilLog2(x) == IF x <= 1 THEN 0 ELSE 1 + FloorLog2(x - 1)

\* b - a of party i
Width(i) == search_range[i][2] - search_range[i][1]

\* C1: on plain parties built with the range [min, max] and any k in 1..N, the
\* in-process driver never panics and what it returns is Some(x), x the k-th
\* smallest element of the sorted union of the databases
C1_ReturnsKth ==
    /\ pc # "panic"
    /\ pc = "done" => res = Some(KthOfUnion)

C1_Witness ==
    /\ pc = "done"
    /\ n >= 2
    /\ rounds >= 2
    /\ k \notin {1, databases_size}
    /\ res = Some(KthOfUnion)

\* C2: the verdict computed from the decrypted sums lt, gt is Abort when one of
\* them exceeds N, otherwise SearchBelow when lt >= k, otherwise SearchAbove
\* when gt > N - k, otherwise FoundK; when both search conditions hold the
\* verdict is SearchBelow
C2_Verdict ==
    pc = "update" =>
        LET lt == sum_enc[1].pt
            gt == sum_enc[2].pt
            abort == lt > databases_size \/ gt > databases_size
        IN  /\ abort => update = "Abort"
            /\ (~abort /\ lt >= k) => update = "SearchBelow"
            /\ (~abort /\ lt < k /\ gt > databases_size - k) => update = "SearchAbove"
            /\ (~abort /\ lt < k /\ gt <= databases_size - k) => update = "FoundK"

\* both search conditions hold and the verdict has been computed
C2_Witness ==
    /\ pc = "update"
    /\ sum_enc[1].pt <= databases_size
    /\ sum_enc[2].pt <= databases_size
    /\ sum_enc[1].pt >= k
    /\ sum_enc[2].pt > databases_size - k
    /\ update = "SearchBelow"

\* C3: once every party has been handed the verdict Abort the in-process
\* driver is done, with res = None; it starts no further round
C3_AbortEndsRun ==
    [][(pc = "update" /\ update = "Abort" /\ idx = n)
         => (pc' = "done" /\ res' = None)]_vars

\* C4: a DPClient of noise level NONE hands to encryption the counts of
\* local_comp1 unchanged, in every round, and the run returns the k-th
\* smallest element of the sorted union
C4_NoneIsPlain ==
    (kind = "dp" /\ noise_level = "NONE") =>
        /\ \A j \in 1 .. Len(local_lt) :
            /\ local_lt[j] = encrypt(LessCount(j))
            /\ local_gt[j] = encrypt(GreaterCount(j))
        /\ pc = "done" => res = Some(KthOfUnion)

C4_Witness ==
    /\ kind = "dp"
    /\ noise_level = "NONE"
    /\ pc = "done"
    /\ rounds >= 2
    /\ n >= 2
    /\ res = Some(KthOfUnion)

\* C5: the two counts a DPClient hands to encryption are not negative and
\* their sum is at most the length of the party's database
C5_CountsFit ==
    kind = "dp" =>
        \A j \in 1 .. Len(local_lt) :
            /\ local_lt[j].pt >= 0
            /\ local_gt[j].pt >= 0
            /\ local_lt[j].pt + local_gt[j].pt <= Len(database[j])

\* a party has handed to encryption a pair that the proportional adjustment
\* made of two noisy counts whose sum exceeded the database length
C5_Witness ==
    /\ kind = "dp"
    /\ pc \in {"local", "add"}
    /\ \E j \in 1 .. Len(local_lt) :
       \E l \in add_noise(j, LessCount(j)), g \in add_noise(j, GreaterCount(j)) :
          /\ l + g > Len(database[j])
          /\ <<local_lt[j].pt, local_gt[j].pt>> = adjust(l, g, Len(database[j]))

\* C6: on plain parties every SearchBelow or SearchAbove verdict strictly
\* decreases b - a of the party it is applied to, and the driver reaches
\* FoundK and returns
C6_Terminates ==
    /\ [][(pc = "update" /\ update \in {"SearchBelow", "SearchAbove"})
            => (search_range'[idx][2] - search_range'[idx][1] < Width(idx))]_vars
    /\ <>(pc = "done" /\ update = "FoundK")

C6_Witness ==
    /\ pc = "done"
    /\ update = "FoundK"
    /\ rounds >= 2

\* C7 as stated: a plain run computes at most ceil(log2(b0 - a0 + 1)) verdicts
C7_CeilLog2Rounds == rounds <= CeilLog2(InitialRange)

\* C7, amended: a plain run computes at most floor(log2(b0 - a0 + 1)) + 1
\* verdicts
C7_FloorLog2Rounds == rounds <= FloorLog2(InitialRange) + 1

\* a run that returns after exactly floor(log2(b0 - a0 + 1)) + 1 rounds, which
\* is more than ceil(log2(b0 - a0 + 1))
C7_Witness ==
    /\ pc = "done"
    /\ rounds = FloorLog2(InitialRange) + 1
    /\ rounds > CeilLog2(InitialRange)
    /\ InitialRange > 1

HoldsAllCounts ==
    IF driver = "inproc"
    THEN Len(local_lt) = n /\ Len(local_gt) = n
    ELSE srv_pc = "readCiphertexts" /\ recvd = n

\* the coordinator holds the shares of all n parties
HoldsAllShares ==
    IF driver = "inproc"
    THEN Len(lt_shares) = n /\ Len(gt_shares) = n
    ELSE srv_pc = "readShares" /\ Len(lt_array_decrypt) = n /\ Len(gt_array_decrypt) = n

\* this step aggregates the encrypted counts
StepAggregates == sum_enc' # sum_enc /\ sum_enc' # None

\* in this step party i computes its partial decryptions
StepComputesShares(i) ==
    IF driver = "inproc"
    THEN pc = "shares" /\ idx = i /\ Len(lt_shares') > Len(lt_shares)
    ELSE cl_pc[i] = "awaitDecrypt" /\ cl_pc'[i] = "awaitUpdate"

\* this step computes a verdict
StepDecides == rounds' = rounds + 1

\* in this step party i applies a verdict
StepApplies(i) ==
    IF driver = "inproc"
    THEN pc = "update" /\ idx = i /\ (pc' # pc \/ idx' # idx)
    ELSE cl_round'[i] = cl_round[i] + 1

\* the verdict party i applies next has been computed
VerdictComputed(i) ==
    IF driver = "inproc"
    THEN update \in UpdateSearchRange
    ELSE rounds > cl_round[i]

\* C9: in both drivers the counts are aggregated only when the coordinator
\* holds the encrypted counts of all n parties, a party computes its partial
\* decryptions only when the aggregate exists, a verdict is computed only when
\* the coordinator holds the shares of all n parties, and a party applies a
\* verdict only after it has been computed
C9_PhaseOrder ==
    [][/\ StepAggregates => HoldsAllCounts
       /\ \A i \in Party : StepComputesShares(i) => sum_enc # None
       /\ StepDecides => HoldsAllShares
       /\ \A i \in Party : StepApplies(i) => VerdictComputed(i)]_vars

C9_Witness ==
    /\ driver = "net"
    /\ n = 2
    /\ rounds >= 2
    /\ srv_pc = "done"
    /\ \A i \in Party : cl_pc[i] = "returned" /\ cl_round[i] = rounds

\* client i has computed the counts of its round cl_round[i] + 1
HasComputedCounts(i) == cl_pc[i] \in {"awaitDecrypt", "awaitUpdate"}

\* client i has computed the partial decryptions of its round cl_round[i] + 1
HasComputedShares(i) == cl_pc[i] = "awaitUpdate"

\* C10 as stated: in the networked driver a client that has computed its
\* round r+1 counts finds every client with the round-r verdict applied
C10_CountsAfterAllApplied ==
    driver = "net" =>
        \A i, j \in Party : HasComputedCounts(i) => cl_round[j] >= cl_round[i]

\* C10 as amended: in the networked driver the round r+1 counts are aggregated
\* by the server, and a client computes its round r+1 partial decryptions, only
\* when every client has applied the round-r verdict
C10_SharesAfterAllApplied ==
    driver = "net" =>
        /\ \A i, j \in Party : HasComputedShares(i) => cl_round[j] >= cl_round[i]
        /\ srv_pc \in {"sendDecryptRequest", "readShares"} =>
               \A j \in Party : cl_round[j] = rounds

C10_Witness ==
    /\ driver = "net"
    /\ n = 2
    /\ \E i \in Party : HasComputedShares(i) /\ cl_round[i] >= 1
    /\ \E j \in Party : cl_pc[j] = "awaitDecrypt"

\* C11: parties built with one initial range hold the same search range when
\* a round of the in-process driver starts and the same m once all have run
\* local_computation, and what the driver returns is the m of every party
C11_SameRangeSameM ==
    /\ (pc = "local" /\ idx = 1) =>
           \A i, j \in Party : search_range[i] = search_range[j]
    /\ pc \in {"add", "shares", "combine", "update", "done"} =>
           \A i, j \in Party : m[i] = m[j]
    /\ pc = "done" => \A i \in Party : res = Some(m[i])

\* two parties, one of which has no element above m in some round, return after
\* at least two rounds
C11_Witness ==
    /\ pc = "done"
    /\ n = 2
    /\ rounds >= 2
    /\ \E i \in Party : greater_than_m_idx[i] = None
    /\ res = Some(m[2])

\* C12: with databases_size the sum of the database lengths both decrypted
\* sums are at most databases_size in every round, for plain and for
\* differentially private parties, and the verdict is never Abort
C12_NoAbort ==
    /\ sum_enc # None =>
           /\ sum_enc[1].pt <= databases_size
           /\ sum_enc[2].pt <= databases_size
    /\ update # "Abort"

\* noisy counts that the adjustment brought down add up to databases_size
C12_Witness ==
    /\ kind = "dp"
    /\ noise_level = "LOW"
    /\ pc = "update"
    /\ sum_enc[1].pt + sum_enc[2].pt = databases_size
    /\ \E j \in Party :
          LessCount(j) + GreaterCount(j) < Len(database[j])

\* C13: a construction with k = 0 is rejected, no round is run on it: nothing
\* is counted, encrypted, aggregated or decided
C13_InvalidKRejected ==
    k = 0 =>
        /\ local_lt = <<>>
        /\ sum_enc = None
        /\ rounds = 0

\* floor((globalMin + globalMax) / 2) of the union of the databases
FirstM ==
    average_floor(SetMin(Elements(database, n)), SetMax(Elements(database, n)))

\* the number of elements below FirstM in the databases 1 .. i
RECURSIVE SumBelowFirstM(_)
SumBelowFirstM(i) ==
    IF i = 0 THEN 0
    ELSE SumBelowFirstM(i - 1)
         + Cardinality({r \in 1 .. Len(database[i]) : database[i][r] < FirstM})

\* the number of elements above FirstM in the databases 1 .. i
RECURSIVE SumAboveFirstM(_)
SumAboveFirstM(i) ==
    IF i = 0 THEN 0
    ELSE SumAboveFirstM(i - 1)
         + Cardinality({r \in 1 .. Len(database[i]) : database[i][r] > FirstM})

\* C14: in the first round of a plain run, once every party has sent its
\* shares, combine_shares gives the number of elements below m and the number
\* of elements above m over all databases, m = floor((globalMin + globalMax) / 2)
C14_FirstRoundSums ==
    (pc = "combine" /\ rounds = 0) =>
        /\ \A i \in Party : m[i] = FirstM
        /\ combine_shares(lt_shares, gt_shares)
             = <<Some(SumBelowFirstM(n)), Some(SumAboveFirstM(n))>>

\* two parties have sent their shares, and both sums are positive
C14_Witness ==
    /\ pc = "combine"
    /\ rounds = 0
    /\ n = 2
    /\ SumBelowFirstM(n) >= 1
    /\ SumAboveFirstM(n) >= 1
    /\ combine_shares(lt_shares, gt_shares)[1] = Some(SumBelowFirstM(n))

\* the number of elements below x in the databases 1 .. i
RECURSIVE UnionBelow(_, _)
UnionBelow(i, x) ==
    IF i = 0 THEN 0
    ELSE UnionBelow(i - 1, x)
         + Cardinality({r \in 1 .. Len(database[i]) : database[i][r] < x})

\* the number of elements above x in the databases 1 .. i
RECURSIVE UnionAbove(_, _)
UnionAbove(i, x) ==
    IF i = 0 THEN 0
    ELSE UnionAbove(i - 1, x)
         + Cardinality({r \in 1 .. Len(database[i]) : database[i][r] > x})

\* the verdict on the exact counts of the union for the search range rg
VerdictOn(rg) ==
    LET mid == average_floor(rg[1], rg[2])
    IN  calculate_update(UnionBelow(n, mid), UnionAbove(n, mid))

\* the search range of round r of a run on exact counts, r >= 1
RECURSIVE RangeOfRound(_)
RangeOfRound(r) ==
    IF r = 1
    THEN <<SetMin(Elements(database, n)), SetMax(Elements(database, n))>>
    ELSE LET rg == RangeOfRound(r - 1)
             mid == average_floor(rg[1], rg[2])
         IN  IF VerdictOn(rg) = "SearchBelow" THEN <<rg[1], mid - 1>>
             ELSE IF VerdictOn(rg) = "SearchAbove" THEN <<mid + 1, rg[2]>>
             ELSE rg

C16_AbortReturnsNone ==
    driver = "net" =>
        \A i \in Party :
            (cl_pc[i] = "returned" /\ update = "Abort") => cl_ret[i] = None

\* the server is in a receive loop and the task reading from some client has
\* nothing to read
ServerWaits ==
    /\ driver = "net"
    /\ srv_pc \in {"readCiphertexts", "readShares"}
    /\ \E i \in Party : task[i] = "reading" /\ to_srv[i] = <<>>

\* C17: when some client never delivers what the server is waiting for, the
\* server eventually gives the round up and broadcasts Abort
C17_SilentClientAborts == (<>[]ServerWaits) => <>(update = "Abort")

\* C18 as stated: parties built with a range of one point return without a
\* round: nothing is counted, encrypted, aggregated or decided
C18_PointRangeNoRound ==
    InitialRange = 1 =>
        /\ local_lt = <<>>
        /\ local_gt = <<>>
        /\ sum_enc = None
        /\ lt_shares = <<>>
        /\ rounds = 0

\* C18 as amended: on plain parties built with a range of one point the
\* in-process driver runs one round, whose verdict is FoundK, and returns the
\* point
C18_PointRangeOneRound ==
    InitialRange = 1 =>
        /\ rounds <= 1
        /\ update \in UpdateSearchRange => update = "FoundK"
        /\ pc # "panic"
        /\ pc = "done" =>
             /\ rounds = 1
             /\ res = Some(SetMin(Elements(database, n)))

\* two parties whose elements all are equal have returned after one round
C18_Witness ==
    /\ InitialRange = 1
    /\ n = 2
    /\ pc = "done"
    /\ rounds = 1
    /\ res = Some(SetMin(Elements(database, n)))

\* C19: update_search_range(SearchBelow) sets b to m - 1 and, with
\* greater_than_m_idx set, hi to it, and leaves a and lo; SearchAbove sets a
\* to m + 1 and, with greater_than_m_idx set, lo to it, and leaves b and hi;
\* both return None
C19_SearchUpdates ==
    [][/\ (pc = "update" /\ update = "SearchBelow") =>
            /\ search_range'[idx] = <<search_range[idx][1], m[idx] - 1>>
            /\ search_range_idx'[idx] =
                 IF greater_than_m_idx[idx] # None
                 THEN <<search_range_idx[idx][1], unwrap(greater_than_m_idx[idx])>>
                 ELSE search_range_idx[idx]
            /\ res' = None
       /\ (pc = "update" /\ update = "SearchAbove") =>
            /\ search_range'[idx] = <<m[idx] + 1, search_range[idx][2]>>
            /\ search_range_idx'[idx] =
                 IF greater_than_m_idx[idx] # None
                 THEN <<unwrap(greater_than_m_idx[idx]), search_range_idx[idx][2]>>
                 ELSE search_range_idx[idx]
            /\ res' = None]_vars

\* SearchBelow has been applied to party 1, whose greater_than_m_idx was set
\* and has become a hi below the database length
C19_Witness ==
    /\ pc = "update"
    /\ idx = 2
    /\ update = "SearchBelow"
    /\ greater_than_m_idx[1] # None
    /\ search_range_idx[1] = <<0, unwrap(greater_than_m_idx[1])>>
    /\ search_range_idx[1][2] < Len(database[1])
    /\ search_range[1][2] = m[1] - 1

\* C20: update_search_range(FoundK) returns Some(m), update_search_range(Abort)
\* returns None, and both leave search_range, search_range_idx, m,
\* greater_than_m_idx and the database of the party as they are, for a
\* PartyClient and for a DPClient
C20_FoundKAbortFrame ==
    [][(pc = "update" /\ update \in {"FoundK", "Abort"}) =>
          /\ res' = IF update = "FoundK" THEN Some(m[idx]) ELSE None
          /\ search_range' = search_range
          /\ search_range_idx' = search_range_idx
          /\ m' = m
          /\ greater_than_m_idx' = greater_than_m_idx
          /\ database' = database]_vars

\* the first of two DPClient parties has been handed Abort
C20_Witness ==
    /\ kind = "dp"
    /\ n = 2
    /\ pc = "update"
    /\ idx = 2
    /\ update = "Abort"
    /\ res = None

\* C21: on plain parties the k-th smallest element of the union lies in the
\* search range of every party when a round starts; SearchBelow is issued only
\* when it lies in [a, m - 1], SearchAbove only when it lies in [m + 1, b]
C21_KthInRange ==
    /\ (pc = "local" /\ idx = 1) =>
          \A i \in Party :
              search_range[i][1] <= KthOfUnion /\ KthOfUnion <= search_range[i][2]
    /\ (pc = "update" /\ update = "SearchBelow") =>
          \A i \in Party :
              search_range[i][1] <= KthOfUnion /\ KthOfUnion <= m[i] - 1
    /\ (pc = "update" /\ update = "SearchAbove") =>
          \A i \in Party :
              m[i] + 1 <= KthOfUnion /\ KthOfUnion <= search_range[i][2]

\* two parties are handed SearchAbove as the second verdict of a run
C21_Witness ==
    /\ pc = "update"
    /\ update = "SearchAbove"
    /\ rounds = 2
    /\ n = 2
    /\ idx = 2
    /\ KthOfUnion > m[1]

\* C22: when a round starts every party has a <= floor((a + b) / 2) <= b, the
\* middle point local_comp1 is about to use, for plain and DPClient parties
C22_MidpointInRange ==
    (pc = "local" /\ idx = 1) =>
        \A i \in Party :
            /\ search_range[i][1] <= NewM(i)
            /\ NewM(i) <= search_range[i][2]

\* C23: in every state of every party, whatever k, lo <= hi <= |D_i|
C23_IdxInBounds ==
    \A i \in Party :
        /\ search_range_idx[i][1] <= search_range_idx[i][2]
        /\ search_range_idx[i][2] <= Len(database[i])

\* the elements local_comp1 is to scan: D_i[lo..hi], as 1-based positions, when
\* k = 1 or k = N, all of D_i otherwise
ToScan(i) ==
    IF k = 1 \/ k = databases_size
    THEN (search_range_idx[i][1] + 1) .. search_range_idx[i][2]
    ELSE 1 .. Len(database[i])

\* C24: what a plain party hands to encryption is the number of elements to
\* scan strictly below floor((a + b) / 2) and the number strictly above it, and
\* m is that middle point
C24_StrictCounts ==
    pc \in {"local", "add"} =>
        \A j \in 1 .. Len(local_lt) :
            /\ m[j] = average_floor(search_range[j][1], search_range[j][2])
            /\ local_lt[j].pt =
                 Cardinality({r \in ToScan(j) : database[j][r] < m[j]})
            /\ local_gt[j].pt =
                 Cardinality({r \in ToScan(j) : database[j][r] > m[j]})

\* a party scanning a proper sub-range that holds an element equal to m has
\* handed in its counts
C24_Witness ==
    /\ pc = "add"
    /\ k = databases_size
    /\ \E j \in Party :
          /\ search_range_idx[j][1] > 0
          /\ \E r \in ToScan(j) : database[j][r] = m[j]
          /\ \E r \in ToScan(j) : database[j][r] > m[j]

\* C25: after local_computation greater_than_m_idx is None when no scanned
\* element exceeds m, and otherwise the 0-based index in D_i of the first
\* scanned element above m
C25_FirstGreaterIndex ==
    pc \in {"local", "add"} =>
        \A j \in 1 .. Len(local_lt) :
            LET above == {r \in ToScan(j) : database[j][r] > m[j]}
            IN  greater_than_m_idx[j] =
                    IF above = {} THEN None ELSE Some(SetMin(above) - 1)

\* C26: on plain parties built with a search range that contains every element
\* of the union, the in-process driver returns the k-th smallest element
C26_AnyRangeReturnsKth ==
    (kind = "plain" /\ driver = "inproc" /\ pc = "done")
        => res = Some(KthOfUnion)

\* C27: on plain parties built with [min, max] and k = 1 or k = N, every verdict
\* is the one that the counts over the whole databases give for the m of the
\* round, and the value returned is the k-th smallest element, as for a scan of
\* the whole databases
C27_SubRangeAsFullScan ==
    (k = 1 \/ k = databases_size) =>
        /\ pc = "update" =>
              update = calculate_update(UnionBelow(n, m[1]), UnionAbove(n, m[1]))
        /\ pc = "done" => res = Some(KthOfUnion)
        /\ pc # "panic"

\* a verdict on counts over proper sub-ranges: some party leaves out elements
\* of its database that a scan of the whole would count
C27_Witness ==
    /\ k = databases_size
    /\ pc = "update"
    /\ rounds = 2
    /\ \E i \in Party :
          /\ search_range_idx[i][1] > 0
          /\ \E r \in 1 .. search_range_idx[i][1] : database[i][r] < m[i]

\* C28: a party that scans the sub-range (k = 1 or k = N), plain or DPClient,
\* has 0 <= lo <= hi <= |D_i| in every state; the slice of local_comp1 is in
\* bounds and hi - lo of add_noise does not underflow
C28_SubRangeInBounds ==
    (k = 1 \/ k = databases_size) =>
        /\ \A i \in Party :
              /\ 0 <= search_range_idx[i][1]
              /\ search_range_idx[i][1] <= search_range_idx[i][2]
              /\ search_range_idx[i][2] <= Len(database[i])
        /\ pc # "panic"

\* a DPClient whose sub-range has been cut at both ends
C28_Witness ==
    /\ kind = "dp"
    /\ noise_level = "LOW"
    /\ k \in {1, databases_size}
    /\ \E i \in Party :
          /\ search_range_idx[i][1] > 0
          /\ search_range_idx[i][2] < Len(database[i])

\* C29: what a run on DPClient parties returns lies in [min, max], the initial
\* search range
C29_ResultInInitialRange ==
    (kind = "dp" /\ pc = "done") =>
        /\ SetMin(Elements(database, n)) <= unwrap(res)
        /\ unwrap(res) <= SetMax(Elements(database, n))

\* the sum of what the clients counted below m in this round
RECURSIVE SumLess(_)
SumLess(i) == IF i = 0 THEN 0 ELSE SumLess(i - 1) + LessCount(i)

\* the sum of what the clients counted above m in this round
RECURSIVE SumGreater(_)
SumGreater(i) == IF i = 0 THEN 0 ELSE SumGreater(i - 1) + GreaterCount(i)

\* C30: whatever the order in which the clients' ciphertexts and shares reach
\* the network server, the aggregate is the encryption of the sums of the
\* clients' counts, the shares combine to these sums, and the verdict is
\* calculate_update of them
C30_OrderIndependent ==
    driver = "net" =>
        /\ srv_pc \in {"sendDecryptRequest", "readShares"} =>
              sum_enc = <<encrypt(SumLess(n)), encrypt(SumGreater(n))>>
        /\ (srv_pc = "readShares" /\ recvd = n) =>
              combine_shares(lt_array_decrypt, gt_array_decrypt)
                  = <<Some(SumLess(n)), Some(SumGreater(n))>>
        /\ (srv_pc = "sendUpdate" /\ pending = Party) =>
              update = calculate_update(SumLess(n), SumGreater(n))
        /\ srv_pc # "panic"

\* the shares of client 2 have reached the server before those of client 1,
\* and the verdict has been computed
C30_Witness ==
    /\ driver = "net"
    /\ n = 2
    /\ srv_pc = "sendUpdate"
    /\ pending = Party
    /\ lt_array_decrypt[1].share = 2
    /\ lt_array_decrypt[2].share = 1
    /\ update = calculate_update(SumLess(n), SumGreater(n))

\* the verdicts on which a run ends
Final == {"FoundK", "Abort"}

\* C31: in the networked driver the server leaves its loop exactly after the
\* broadcast of FoundK or Abort and begins the next round after SearchBelow or
\* SearchAbove; once it has left, every client has returned or has the final
\* verdict waiting to be read; a client that has returned has done so on the
\* final verdict of the server's current round, with nothing more expected of it
C31_StopTogether ==
    /\ [](driver = "net" =>
            /\ srv_pc = "done" =>
                  /\ update \in Final
                  /\ \A i \in Party :
                        \/ cl_pc[i] = "returned"
                        \/ /\ cl_pc[i] = "awaitUpdate"
                           /\ to_cl[i] = <<MsgUpdateSearchRange(update)>>
            /\ \A i \in Party : cl_pc[i] = "returned" =>
                  /\ srv_pc \in {"sendUpdate", "done"}
                  /\ i \notin pending
                  /\ update \in Final
                  /\ cl_round[i] = rounds
                  /\ to_srv[i] = <<>>
                  /\ to_cl[i] = <<>>)
    /\ [][(driver = "net" /\ srv_pc = "sendUpdate" /\ srv_pc' # "sendUpdate") =>
            IF update \in Final
            THEN srv_pc' = "done"
            ELSE srv_pc' = "readCiphertexts" /\ \A i \in Party : task'[i] = "reading"]_vars

\* the server has left its loop after a second round and both clients have
\* returned
C31_Witness ==
    /\ driver = "net"
    /\ n = 2
    /\ srv_pc = "done"
    /\ rounds = 2
    /\ \A i \in Party : cl_pc[i] = "returned"

\* C32: in the networked driver every connection holds at most one unread
\* message, in one direction at a time; a client writes only when nothing
\* written to it is left unread, the server writes to a client only when it
\* has read what the client wrote, and it begins a broadcast only when it has
\* read what every client wrote
C32_OneOutstanding ==
    /\ [](driver = "net" => \A i \in Party :
            /\ Len(to_srv[i]) <= 1
            /\ Len(to_cl[i]) <= 1
            /\ to_srv[i] = <<>> \/ to_cl[i] = <<>>)
    /\ [][driver = "net" => \A i \in Party :
            /\ Len(to_srv'[i]) > Len(to_srv[i]) => to_cl'[i] = <<>> /\ to_srv[i] = <<>>
            /\ Len(to_cl'[i]) > Len(to_cl[i]) => to_cl[i] = <<>> /\ to_srv[i] = <<>>
            /\ (pending # Party /\ pending' = Party) => to_srv[i] = <<>>]_vars

\* client 2 has written the counts of its second round, which the server has
\* not read yet
C32_Witness ==
    /\ driver = "net"
    /\ n = 2
    /\ cl_round[2] = 1
    /\ Len(to_srv[2]) = 1
    /\ to_srv[2][1].type = "MsgCiphertext"

\* C33: in the networked driver every message written is parsed by the peer
\* that reads it, whatever its encoded length: no reading task of the server
\* and no client panics on what one read has returned
C33_ReceivedComplete ==
    driver = "net" =>
        \A i \in Party : task[i] # "panic" /\ cl_pc[i] # "panic"

\* the pairs <<less, greater>> a DPClient may hold after the two add_noise
\* calls of local_computation, before the proportional adjustment
NoisyCounts(i) ==
    add_noise(i, LessCount(i)) \X add_noise(i, GreaterCount(i))

\* C34 as stated: on a DPClient the sum of the two noisy counts is at most
\* the length of the database before the proportional adjustment and after it
C34_FitBeforeAndAfter ==
    kind = "dp" =>
        \A i \in Party : \A c \in NoisyCounts(i) :
            /\ c[1] + c[2] <= Len(database[i])
            /\ adjust(c[1], c[2], Len(database[i]))[1]
                 + adjust(c[1], c[2], Len(database[i]))[2] <= Len(database[i])

\* C34: on a DPClient the proportional adjustment leaves a pair of noisy
\* counts that fits the database as it is and turns every other pair into a
\* pair of counts, none negative, whose sum is at most the length of the
\* database
C34_FitAfterClamping ==
    kind = "dp" =>
        \A i \in Party : \A c \in NoisyCounts(i) :
            LET len == Len(database[i])
                a == adjust(c[1], c[2], len)
            IN  /\ a[1] >= 0 /\ a[2] >= 0
                /\ a[1] + a[2] <= len
                /\ c[1] + c[2] <= len => a = c

\* a DPClient in its second round that may draw noise taking the sum of its
\* counts past the length of its database
C34_Witness ==
    /\ kind = "dp"
    /\ noise_level = "LOW"
    /\ pc = "local"
    /\ rounds = 1
    /\ \E c \in NoisyCounts(idx) :
          /\ c[1] + c[2] > Len(database[idx])
          /\ c[1] > 0 /\ c[2] > 0

\* the effective database size of party i: the size of the sub-range, at
\* least 1, for the extreme ranks and the size of the database otherwise
EffectiveSize(i) ==
    IF k \in {1, databases_size}
    THEN Max(1, search_range_idx[i][2] - search_range_idx[i][1])
    ELSE Len(database[i])

\* what add_noise may return for result when the scale function is given d
NoisyWith(result, d) ==
    {Max(result + noise, 0) : noise \in laplace_point(get_scale(noise_level, result, d))}

\* C35: the two counts a DPClient has handed to encryption in this round are
\* an adjusted pair of its count below m and its count above m, each with noise
\* of the scale that the scale function gives for the effective database size
C35_EffectiveSize ==
    (kind = "dp" /\ pc \in {"local", "add"}) =>
        \A j \in 1 .. Len(local_lt) :
            <<local_lt[j].pt, local_gt[j].pt>> \in
                {adjust(l, g, Len(database[j])) :
                    l \in NoisyWith(LessCount(j), EffectiveSize(j)),
                    g \in NoisyWith(GreaterCount(j), EffectiveSize(j))}

\* a DPClient with the sigmoid scale has handed over counts computed on a
\* sub-range of one element of a longer database, where the sub-range size
\* gives scale 0 and the size of the database does not
C35_Witness ==
    /\ kind = "dp"
    /\ noise_level = "LOW"
    /\ get_scale_fn = "sigmoid"
    /\ k \in {1, databases_size}
    /\ pc = "add"
    /\ \E j \in Party :
          /\ search_range_idx[j][2] - search_range_idx[j][1] = 1
          /\ Len(database[j]) > 1
          /\ local_lt[j].pt = LessCount(j)
          /\ local_gt[j].pt = GreaterCount(j)

\* the number of local_computation calls party i has returned from, in the
\* in-process driver: one per verdict computed, and one more once the party
\* has been passed in the round under way
Computations(i) ==
    IF pc = "local" THEN rounds + (IF i < idx THEN 1 ELSE 0)
    ELSE IF pc \in {"add", "shares", "combine"} THEN rounds + 1
    ELSE rounds

\* C36: the noise log of a DPClient holds two entries for each of its
\* local_computation calls, 2r after r rounds; only local_computation of the
\* party changes it, by appending two entries
C36_NoiseLogged ==
    /\ []((kind = "dp" /\ driver = "inproc" /\ pc # "panic") =>
            \A i \in Party : noise_array[i] = 2 * Computations(i))
    /\ [][\A i \in Party : noise_array'[i] # noise_array[i] =>
            /\ kind = "dp"
            /\ pc = "local" /\ idx = i
            /\ noise_array'[i] = noise_array[i] + 2]_vars

\* two DPClients at noise level NONE after two rounds each and the second
\* verdict
C36_Witness ==
    /\ kind = "dp"
    /\ noise_level = "NONE"
    /\ n = 2
    /\ pc = "update"
    /\ rounds = 2
    /\ noise_array = <<4, 4>>

\* C37: a call of the in-process driver on plain parties that follows a call
\* which returned Some(x) leaves every search range and every sub-range as
\* that call left them, and returns Some(x) after one round
C37_RunAgainSame ==
    (kind = "plain" /\ history # <<>>) =>
        LET before == history[Len(history)]
        IN  /\ pc # "panic"
            /\ search_range = before.search_range
            /\ search_range_idx = before.search_range_idx
            /\ rounds <= before.rounds + 1
            /\ pc = "done" => res = before.res /\ rounds = before.rounds + 1

\* the second call on two parties has returned; the first call had narrowed
\* the search range in a round before the one that found the element
C37_Witness ==
    /\ n = 2
    /\ pc = "done"
    /\ history # <<>>
    /\ history[1].rounds = 2
    /\ history[1].res = res
    /\ history[1].search_range[1] # <<SetMin(Elements(database, n)), SetMax(Elements(database, n))>>

\* C38: at a noise level other than NONE, get_scale_sigmoid gives a DPClient a
\* positive scale for its effective database size, when that is at least 1,
\* and every count from 0 to that size
C38_SigmoidScalePositive ==
    (kind = "dp" /\ get_scale_fn = "sigmoid" /\ noise_level # "NONE") =>
        \A i \in Party : db_size(i) >= 1 =>
            \A result \in 0 .. db_size(i) :
                get_scale_sigmoid(noise_level, result, db_size(i)) > 0

\* C39: with the k of KValue::Median on a union of even size, the element
\* get_kth_element selects is the larger of the two middle elements
C39_MedianIsUpper ==
    (databases_size % 2 = 0 /\ k = to_k("Median", databases_size)) =>
        get_kth_element(database, n, k)
            = Sort(Flatten(database, n))[databases_size \div 2 + 1]

\* C40: the k of to_k, for Min, Median and Max on a union of at least one
\* element, is a rank from 1 to the size of the union
C40_RankValid ==
    \A kv \in KValue :
        (databases_size >= 1 /\ k = to_k(kv, databases_size)) =>
            1 <= k /\ k <= databases_size

=============================================================================
